---- MODULE Spec2Model ----
(***************************************************************************)
(* Live market data aggregator (liveDataStore.ts + upstoxService.ts) and   *)
(* the broker connection manager (useBrokerConnection.ts) of next-algo.    *)
(*                                                                         *)
(* JavaScript runs one macrotask at a time: every action below is one      *)
(* macrotask (a caller's synchronous call up to its first real await, a    *)
(* network completion with the promise continuations it triggers, or a     *)
(* timer callback).  Calls that await the network are split at the await.  *)
(* The only synchronous run that is split further is reconnect(), whose    *)
(* set({connectionStatus:'reconnecting'}) is published to store            *)
(* subscribers before initialize() overwrites it.                          *)
(***************************************************************************)
EXTENDS Integers, Sequences, FiniteSets, TLC

VARIABLES
    connectionStatus,   \* store: ConnectionStatus
    isConnected,        \* store: boolean
    error,              \* store: string | null
    upstoxService,      \* store: service instance id, 0 is null
    brokerConnection,   \* store: row | Null
    liveData,           \* store: Map<string, LiveMarketData>
    subscriptions,      \* store: Set<string>
    subscriptionMode,   \* store
    svc,                \* the UpstoxMarketDataService instances created so far
    nSvc,               \* number of instances created
    numListeners,       \* 'marketData' listeners registered on window
    handlerStored,      \* window._liveDataHandler is set
    call,               \* the initialize/connect/reconnect call in flight
    inflight,           \* poll requests awaiting their response
    rows,               \* credential store: broker_connections rows
    connections,        \* connection manager hook: rows fetched last
    nextId,             \* credential store: next row id
    profile,            \* credential store: the user's profiles row
    oauth,              \* the OAuth callback in flight (callback page)
    clock,              \* wall clock of the connection manager, in minutes
    calc,               \* the calculator call made last: its input and result
    ev                  \* the last operation step and its outcome (history)

vars == <<connectionStatus, isConnected, error, upstoxService, brokerConnection,
          liveData, subscriptions, subscriptionMode, svc, nSvc, numListeners,
          handlerStored, call, inflight, rows, connections, nextId, profile,
          oauth, clock, calc, ev>>

storeVars == <<connectionStatus, isConnected, error, upstoxService,
               brokerConnection, liveData, subscriptions, subscriptionMode>>
aggVars == <<connectionStatus, isConnected, error, upstoxService, brokerConnection,
             liveData, subscriptions, subscriptionMode, svc, nSvc, numListeners,
             handlerStored, call, inflight>>
cmVars == <<rows, connections, nextId, profile, oauth, clock>>
calcVars == <<calc>>

----------------------------------------------------------------------------
(* Bounds *)
MaxServices == 2     \* service instances created in one behaviour
MaxListeners == 2    \* direct connect() calls stop once this many listeners exist
MaxInFlight == 1     \* poll requests awaiting a response
MaxEntries == 1      \* entries in one poll response
MaxTime == 2         \* clock values and expiry instants are 1..MaxTime
MaxIds == 2          \* rows ever inserted into broker_connections

----------------------------------------------------------------------------
(* JavaScript values *)
\* undefined where a number is expected (every number of the model is >= 0)
Undefined == -1
\* undefined / null where an object is expected
UndefinedObj == [isUndefined |-> TRUE]
Null == [isNull |-> TRUE]
\* undefined / null where a string is expected
UndefinedStr == "undefined"
NullStr == "null"

\* a || b for numbers
JsOr(a, b) == IF a \in {Undefined, 0} THEN b ELSE a

\* obj.f for a number-valued property, undefined when the property is missing
\* (obj?.f when obj itself is undefined)
Get(obj, f) == IF f \in DOMAIN obj THEN obj[f] ELSE Undefined

\* obj.f for an object-valued property
GetObj(obj, f) == IF f \in DOMAIN obj THEN obj[f] ELSE UndefinedObj

\* obj.f for a string-valued property
GetStr(obj, f) == IF f \in DOMAIN obj THEN obj[f] ELSE UndefinedStr

\* {...a, ...b}: every own property of b, the undefined-valued ones included
Spread(a, b) ==
    [f \in (DOMAIN a) \cup (DOMAIN b) |-> IF f \in DOMAIN b THEN b[f] ELSE a[f]]

EmptyObj == [f \in {} |-> Undefined]

----------------------------------------------------------------------------
(* Instrument keys: a key is the sequence of its segments and separators *)
NiftyKey == <<"NSE_INDEX", "|", "Nifty 50">>
OptKey == <<"NSE_FO", "|", "NIFTY25000CE">>
Keys == {NiftyKey, OptKey}

NiftyUpstream == <<"NSE_INDEX", ":", "Nifty 50">>
OptUpstream == <<"NSE_FO", ":", "NIFTY25000CE">>
RespKeys == {NiftyUpstream, OptUpstream}

\* instrumentKey.replace(':', '|'): the first ':' only
RECURSIVE ReplaceFirst(_, _, _)
ReplaceFirst(s, from, to) ==
    IF s = <<>> THEN <<>>
    ELSE IF Head(s) = from THEN <<to>> \o Tail(s)
    ELSE <<Head(s)>> \o ReplaceFirst(Tail(s), from, to)

\* the key used as returned, without the replacement
NormalizeKeyUnchanged(instrumentKey) == instrumentKey

NormalizeKey(instrumentKey) == ReplaceFirst(instrumentKey, ":", "|")

----------------------------------------------------------------------------
(* Upstream quote objects: the values of data.data in a poll response.     *)
(* percent_change is in hundredths of a percent (0.2 is 20).               *)
Ohlc == [high |-> 24600, low |-> 24400, close |-> 24450]
QuoteFull == [last_price |-> 24500, volume |-> 700000, net_change |-> 50,
              percent_change |-> 20]
QuoteOhlc == [last_price |-> 24510, volume |-> 650000, net_change |-> 60,
              percent_change |-> 25, ohlc |-> Ohlc]
QuoteLtp == [last_price |-> 24520]
Quotes == {QuoteFull, QuoteOhlc, QuoteLtp}

\* pollMarketData's argument to handleMarketData for one response entry
PollMapping(instrumentKey, marketData) ==
    [instrument_key |-> NormalizeKey(instrumentKey),
     last_price |-> Get(marketData, "last_price"),
     volume |-> JsOr(Get(marketData, "volume"), 0),
     net_change |-> JsOr(Get(marketData, "net_change"), 0),
     percent_change |-> JsOr(Get(marketData, "percent_change"), 0),
     ohlc |-> GetObj(marketData, "ohlc")]

\* handleMarketData: the Partial<LiveMarketData> that is emitted.  The object
\* literal defines every property, the undefined-valued ones included.
HandleMarketData(data) ==
    [instrumentKey |-> data.instrument_key,
     ltp |-> data.last_price,
     volume |-> data.volume,
     oi |-> Get(data, "open_interest"),
     netChange |-> Get(data, "net_change"),
     percentChange |-> Get(data, "percent_change"),
     bidPrice |-> Get(GetObj(data, "depth"), "buyPrice"),
     askPrice |-> Get(GetObj(data, "depth"), "sellPrice"),
     bidQuantity |-> Get(GetObj(data, "depth"), "buyQuantity"),
     askQuantity |-> Get(GetObj(data, "depth"), "sellQuantity"),
     high |-> Get(GetObj(data, "ohlc"), "high"),
     low |-> Get(GetObj(data, "ohlc"), "low"),
     previousClose |-> Get(GetObj(data, "ohlc"), "close")]

\* an update in which the fields already stored win over the new ones
UpdateLiveDataExistingWins(ld, data) ==
    IF "instrumentKey" \notin DOMAIN data THEN ld
    ELSE LET k == data.instrumentKey
             existing == IF k \in DOMAIN ld THEN ld[k] ELSE EmptyObj
         IN [x \in (DOMAIN ld) \cup {k} |->
                IF x = k THEN Spread(data, existing) ELSE ld[x]]

\* updateLiveData(data) applied to the map ld
UpdateLiveData(ld, data) ==
    IF "instrumentKey" \notin DOMAIN data THEN ld
    ELSE LET k == data.instrumentKey
             existing == IF k \in DOMAIN ld THEN ld[k] ELSE EmptyObj
         IN [x \in (DOMAIN ld) \cup {k} |->
                IF x = k THEN Spread(existing, data) ELSE ld[x]]

\* the entries of one response applied in order, each through
\* handleMarketData -> 'marketData' event -> updateLiveData
RECURSIVE ApplyResponse(_, _)
ApplyResponse(ld, entries) ==
    IF entries = <<>> THEN ld
    ELSE ApplyResponse(
            UpdateLiveData(ld, HandleMarketData(
                PollMapping(Head(entries).key, Head(entries).quote))),
            Tail(entries))

\* getMarketData(instrumentKey): liveData.get(key) || null
MarketDataOf(ld, instrumentKey) ==
    IF instrumentKey \in DOMAIN ld THEN ld[instrumentKey] ELSE Null

GetMarketData(instrumentKey) == MarketDataOf(liveData, instrumentKey)

\* getNiftyData()
GetNiftyData == GetMarketData(NiftyKey)

----------------------------------------------------------------------------
(* UpstoxMarketDataService instances *)
Range(seq) == {seq[i] : i \in 1..Len(seq)}

\* [...new Set(seq)]: first occurrences, in order
RECURSIVE Dedup(_)
Dedup(seq) ==
    IF seq = <<>> THEN <<>>
    ELSE LET init == Dedup(SubSeq(seq, 1, Len(seq) - 1))
             last == seq[Len(seq)]
         IN IF last \in Range(init) THEN init ELSE Append(init, last)

\* the elements of seq that are not in S, in order
RECURSIVE Without(_, _)
Without(seq, S) ==
    IF seq = <<>> THEN <<>>
    ELSE IF Head(seq) \in S THEN Without(Tail(seq), S)
    ELSE <<Head(seq)>> \o Without(Tail(seq), S)

\* field initialisers of the class
NewService ==
    [isConnected |-> FALSE, subscriptions |-> {}, pollingInstruments |-> <<>>,
     pollingInterval |-> FALSE]

\* startPolling(instrumentKeys, mode)
StartPolling(s, instrumentKeys) ==
    [s EXCEPT !.pollingInstruments = Dedup(@ \o instrumentKeys),
              !.pollingInterval = TRUE]

\* a subscribe without the connection guard
SubscribeNeverThrows(s) == FALSE

\* subscribeToNiftyOptions throws iff the service is not connected
SubscribeThrows(s) == ~s.isConnected

\* subscribeToNiftyOptions(instrumentKeys, mode) when it does not throw
SubscribeToNiftyOptions(s, instrumentKeys) ==
    StartPolling([s EXCEPT !.subscriptions = @ \cup Range(instrumentKeys)],
                 instrumentKeys)

\* service.unsubscribe(instrumentKeys)
ServiceUnsubscribe(s, instrumentKeys) ==
    IF ~s.isConnected THEN s
    ELSE LET rest == Without(s.pollingInstruments, Range(instrumentKeys))
         IN [s EXCEPT !.subscriptions = @ \ Range(instrumentKeys),
                      !.pollingInstruments = rest,
                      !.pollingInterval = IF rest = <<>> THEN FALSE ELSE @]

\* a disconnect that clears the state but leaves the interval running
ServiceDisconnectKeepsTimer(s) ==
    [s EXCEPT !.isConnected = FALSE, !.subscriptions = {},
              !.pollingInstruments = <<>>]

\* service.disconnect()
ServiceDisconnect(s) ==
    [s EXCEPT !.pollingInterval = FALSE, !.isConnected = FALSE,
              !.subscriptions = {}, !.pollingInstruments = <<>>]

\* a catch block that marks the service inactive on every failure
OnPollErrorAny(s, status) == [s EXCEPT !.isConnected = FALSE]

\* the catch block of pollMarketData: only a 401 marks the service inactive
OnPollError(s, status) ==
    IF status = 401 THEN [s EXCEPT !.isConnected = FALSE] ELSE s

\* connectionStatus after a failed poll tick: the service has no path to the store
StatusAfterPollError(status) == status

----------------------------------------------------------------------------
(* The rows supabase can return to initialize's lookup *)
Users == {"u1"}
Tokens == {NullStr, "dG9rZW4="}
\* the modes clients ask for (the store starts in 'full')
Modes == {"ltpc"}

\* atob(t) throws on input that is not base64
AtobThrows(t) == t \notin Tokens

\* getAccessToken(): "ok" or the message of the error it throws
GetAccessToken(row) ==
    IF GetStr(row, "accessToken") \notin {UndefinedStr, NullStr, ""} THEN "ok"
    ELSE IF GetStr(row, "access_token_encrypted") \notin {UndefinedStr, NullStr, ""}
         THEN IF AtobThrows(row.access_token_encrypted)
              THEN "Failed to decrypt access token" ELSE "ok"
    ELSE "No access token available"

\* an expiry check that lets a token pass at its expiry instant
TokenExpiredStrict(expiryTime, now) == expiryTime < now

\* expiryTime <= new Date()
TokenExpired(expiryTime, now) == expiryTime <= now

\* rows of broker_connections as select('*') returns them (schema.sql columns)
ActiveRows(userId) ==
    [id : {1}, user_id : {userId}, is_active : {TRUE},
     token_expires_at : {Undefined} \cup (1..MaxTime),
     access_token_encrypted : Tokens]

\* .eq('user_id', userId).eq('is_active', true).single(): a row, or Null with
\* fetchError set (no row, several rows, or a user id that matches nothing)
LookupResults(userId) ==
    IF userId \in Users THEN {Null} \cup ActiveRows(userId) ELSE {Null}

\* the same query evaluated on the rows rs of the credential store
ActiveLookup(rs, userId) ==
    LET found == {r \in rs : r.user_id = userId /\ r.is_active}
    IN IF Cardinality(found) = 1 THEN CHOOSE r \in found : TRUE ELSE Null

\* initialize's try block up to connect(): "ok" or the message thrown
InitializeCheck(row, now) ==
    IF row = Null THEN "No active broker connection found"
    ELSE IF row.token_expires_at # Undefined /\ TokenExpired(row.token_expires_at, now)
         THEN "Access token has expired"
    ELSE GetAccessToken(row)

----------------------------------------------------------------------------
(* State *)
Idle == [pc |-> "idle", kind |-> "", from |-> "", userId |-> "", svc |-> 0]

\* ev: which operation step ran last, from which status, and how it ended
NoEv ==
    [op |-> "none", step |-> "", res |-> "", pre |-> "", from |-> "", kind |-> "",
     svc |-> 0, keys |-> {}, lookup |-> "", test |-> "", exp |-> Undefined,
     now |-> Undefined, status |-> 0, entries |-> <<>>, args |-> <<>>]

Ev(op, step, res) ==
    [NoEv EXCEPT !.op = op, !.step = step, !.res = res]

NoProfile == [broker_connected |-> FALSE, broker_connection_status |-> "disconnected"]

InitStore ==
    /\ connectionStatus = "disconnected"
    /\ isConnected = FALSE
    /\ error = NullStr
    /\ upstoxService = 0
    /\ brokerConnection = Null
    /\ liveData = EmptyObj
    /\ subscriptions = {}
    /\ subscriptionMode = "full"

InitAgg ==
    /\ InitStore
    /\ svc = [i \in 1..MaxServices |-> NewService]
    /\ nSvc = 0
    /\ numListeners = 0
    /\ handlerStored = FALSE
    /\ call = Idle
    /\ inflight = <<>>

\* no OAuth callback is being handled
NoOAuth == [pc |-> "idle", userId |-> "", code |-> "", id |-> 0]

\* no calculator call has been made
NoCalc == [op |-> "none"]

InitCM ==
    /\ rows = {}
    /\ connections = {}
    /\ nextId = 1
    /\ profile = NoProfile
    /\ oauth = NoOAuth
    /\ clock = 0

Init == InitAgg /\ InitCM /\ calc = NoCalc /\ ev = NoEv

\* no other macrotask runs inside reconnect()'s synchronous prefix
Quiescent == call.pc # "reconnecting"

----------------------------------------------------------------------------
(* initialize / connect / reconnect *)

\* initialize(userId, supabaseClient) up to the await of the lookup
InitializeStart(userId) ==
    /\ Quiescent
    /\ call.pc = "idle"
    /\ nSvc < MaxServices
    /\ connectionStatus' = "connecting"
    /\ error' = NullStr
    /\ call' = [pc |-> "lookup", kind |-> "initialize", from |-> connectionStatus,
                userId |-> userId, svc |-> 0]
    /\ ev' = [Ev("initialize", "start", "") EXCEPT
                !.kind = "initialize", !.from = connectionStatus]
    /\ UNCHANGED <<isConnected, upstoxService, brokerConnection, liveData,
                   subscriptions, subscriptionMode, svc, nSvc, numListeners,
                   handlerStored, inflight, cmVars, calcVars>>

\* reconnect(supabaseClient) up to set({connectionStatus: 'reconnecting'})
ReconnectStart ==
    /\ Quiescent
    /\ call.pc = "idle"
    /\ nSvc < MaxServices
    /\ IF brokerConnection = Null
       THEN /\ ev' = [Ev("reconnect", "start",
                         "No broker connection available for reconnection")
                        EXCEPT !.kind = "reconnect", !.from = connectionStatus]
            /\ UNCHANGED <<aggVars, cmVars, calcVars>>
       ELSE /\ connectionStatus' = "reconnecting"
            /\ error' = NullStr
            /\ call' = [pc |-> "reconnecting", kind |-> "reconnect",
                        from |-> connectionStatus,
                        userId |-> GetStr(brokerConnection, "userId"), svc |-> 0]
            /\ ev' = [Ev("reconnect", "start", "") EXCEPT
                        !.kind = "reconnect", !.from = connectionStatus]
            /\ UNCHANGED <<isConnected, upstoxService, brokerConnection, liveData,
                           subscriptions, subscriptionMode, svc, nSvc,
                           numListeners, handlerStored, inflight, cmVars, calcVars>>

\* reconnect's call of initialize(brokerConnection.userId, ...) up to the lookup
ReconnectInitialize ==
    /\ call.pc = "reconnecting"
    /\ connectionStatus' = "connecting"
    /\ error' = NullStr
    /\ call' = [call EXCEPT !.pc = "lookup"]
    /\ ev' = [Ev("initialize", "start", "") EXCEPT
                !.kind = "reconnect", !.from = call.from]
    /\ UNCHANGED <<isConnected, upstoxService, brokerConnection, liveData,
                   subscriptions, subscriptionMode, svc, nSvc, numListeners,
                   handlerStored, inflight, cmVars, calcVars>>

\* the lookup completes: initialize's checks, new service, connect() up to the
\* fetch of testConnection; or the catch blocks of initialize (and reconnect)
InitializeLookup(row, now) ==
    /\ call.pc = "lookup"
    /\ row \in LookupResults(call.userId)
    /\ LET outcome == InitializeCheck(row, now)
           e == [Ev("initialize", "lookup", outcome) EXCEPT
                    !.kind = call.kind, !.from = call.from,
                    !.lookup = IF row = Null THEN "fail" ELSE "ok",
                    !.test = "none",
                    !.svc = IF outcome = "ok" THEN nSvc + 1 ELSE 0,
                    !.exp = IF row = Null THEN Undefined ELSE row.token_expires_at,
                    !.now = now]
       IN IF outcome = "ok"
          THEN /\ nSvc' = nSvc + 1
               /\ upstoxService' = nSvc + 1
               /\ brokerConnection' = row
               /\ connectionStatus' = "connecting"
               /\ error' = NullStr
               /\ call' = [call EXCEPT !.pc = "test", !.svc = nSvc + 1]
               /\ ev' = e
               /\ UNCHANGED <<isConnected, liveData, subscriptions,
                              subscriptionMode, svc, numListeners, handlerStored,
                              inflight, cmVars, calcVars>>
          ELSE /\ connectionStatus' = "error"
               /\ error' = outcome
               /\ upstoxService' = 0
               /\ brokerConnection' = Null
               /\ call' = Idle
               /\ ev' = [e EXCEPT !.step = "end"]
               /\ UNCHANGED <<isConnected, liveData, subscriptions,
                              subscriptionMode, svc, nSvc, numListeners,
                              handlerStored, inflight, cmVars, calcVars>>

\* connect() called by a client, up to the fetch of testConnection
ConnectStart ==
    /\ Quiescent
    /\ call.pc = "idle"
    /\ numListeners < MaxListeners
    /\ IF upstoxService = 0
       THEN /\ ev' = NoEv
            /\ UNCHANGED <<aggVars, cmVars, calcVars>>
       ELSE /\ connectionStatus' = "connecting"
            /\ error' = NullStr
            /\ call' = [pc |-> "test", kind |-> "connect", from |-> connectionStatus,
                        userId |-> "", svc |-> upstoxService]
            /\ ev' = NoEv
            /\ UNCHANGED <<isConnected, upstoxService, brokerConnection, liveData,
                           subscriptions, subscriptionMode, svc, nSvc,
                           numListeners, handlerStored, inflight, cmVars, calcVars>>

\* a connect() that reports 'connected' whatever the test said
StatusAfterConnectAlways(ok) == "connected"

\* connect(): the status set after connectMarketData settled
StatusAfterConnect(ok) == IF ok THEN "connected" ELSE "error"

\* reconnect's re-subscription after initialize resolved, on the services sv:
\* subscribe(Array.from(subscriptions), subscriptionMode), "ok" or its message
ResubscribeResult(sv) ==
    IF subscriptions = {} THEN "ok"
    ELSE IF upstoxService = 0 THEN "Not connected to market data stream"
    ELSE IF SubscribeThrows(sv[upstoxService])
         THEN "Market data connection not established"
    ELSE "ok"

\* some order of the elements of the set S
SeqOf(S) == CHOOSE q \in [1..Cardinality(S) -> S] : Range(q) = S

\* testConnection's response arrives: the rest of connectMarketData, connect,
\* initialize and reconnect
ConnectTest(ok) ==
    /\ call.pc = "test"
    /\ LET s == call.svc
           e == [Ev(IF call.kind = "connect" THEN "connect" ELSE "initialize",
                    "end", "") EXCEPT
                    !.kind = call.kind, !.from = call.from,
                    !.lookup = IF call.kind = "connect" THEN "" ELSE "ok",
                    !.test = IF ok THEN "ok" ELSE "fail"]
       IN IF ok
          THEN /\ isConnected' = TRUE
               /\ numListeners' = numListeners + 1
               /\ handlerStored' = TRUE
               /\ LET connected == [svc EXCEPT ![s].isConnected = TRUE]
                      resub == IF call.kind = "reconnect"
                               THEN ResubscribeResult(connected) ELSE "ok"
                  IN /\ connectionStatus' = IF resub = "ok" THEN StatusAfterConnect(ok)
                                            ELSE "error"
                     /\ error' = IF resub = "ok" THEN NullStr ELSE resub
                     /\ svc' = IF call.kind = "reconnect" /\ subscriptions # {}
                                  /\ resub = "ok"
                               THEN [connected EXCEPT ![upstoxService] =
                                      SubscribeToNiftyOptions(@, SeqOf(subscriptions))]
                               ELSE connected
                     /\ ev' = [e EXCEPT !.res = resub]
               /\ UNCHANGED <<upstoxService, brokerConnection>>
          ELSE /\ svc' = [svc EXCEPT ![s].isConnected = FALSE]
               /\ connectionStatus' = StatusAfterConnect(ok)
               /\ isConnected' = FALSE
               /\ error' = "API test failed"
               /\ IF call.kind = "connect"
                  THEN UNCHANGED <<upstoxService, brokerConnection>>
                  ELSE upstoxService' = 0 /\ brokerConnection' = Null
               /\ ev' = [e EXCEPT !.res = "API test failed"]
               /\ UNCHANGED <<numListeners, handlerStored>>
    /\ call' = Idle
    /\ UNCHANGED <<liveData, subscriptions, subscriptionMode, nSvc, inflight, cmVars, calcVars>>

\* disconnect()
Disconnect ==
    /\ Quiescent
    /\ svc' = IF upstoxService # 0
              THEN [svc EXCEPT ![upstoxService] = ServiceDisconnect(@)] ELSE svc
    /\ numListeners' = IF handlerStored THEN numListeners - 1 ELSE numListeners
    /\ handlerStored' = FALSE
    /\ connectionStatus' = "disconnected"
    /\ isConnected' = FALSE
    /\ upstoxService' = 0
    /\ brokerConnection' = Null
    /\ liveData' = EmptyObj
    /\ subscriptions' = {}
    /\ error' = NullStr
    /\ ev' = [Ev("disconnect", "end", "ok") EXCEPT
                !.svc = upstoxService, !.pre = connectionStatus,
                !.keys = subscriptions]
    /\ UNCHANGED <<subscriptionMode, nSvc, call, inflight, cmVars, calcVars>>

----------------------------------------------------------------------------
(* subscribe / unsubscribe / changeMode *)
KeySeqs ==
    {<<>>} \cup {<<k>> : k \in Keys}
           \cup {q \in [1..2 -> Keys] : q[1] # q[2]}

\* the store's guard of subscribe and changeMode
StoreNotConnected == upstoxService = 0 \/ ~isConnected

\* subscribe(instrumentKeys, mode): "ok" or the message of the error thrown
SubscribeResult ==
    IF StoreNotConnected THEN "Not connected to market data stream"
    ELSE IF SubscribeThrows(svc[upstoxService])
         THEN "Market data connection not established"
    ELSE "ok"

Subscribe(instrumentKeys, mode) ==
    /\ Quiescent
    /\ LET res == SubscribeResult
       IN /\ ev' = [Ev("subscribe", "end", res) EXCEPT
                       !.keys = IF res = "ok" THEN Range(instrumentKeys) ELSE {}]
          /\ IF res = "ok"
             THEN /\ svc' = [svc EXCEPT ![upstoxService] =
                                SubscribeToNiftyOptions(@, instrumentKeys)]
                  /\ subscriptions' = subscriptions \cup Range(instrumentKeys)
                  /\ subscriptionMode' = mode
             ELSE UNCHANGED <<svc, subscriptions, subscriptionMode>>
    /\ UNCHANGED <<connectionStatus, isConnected, error, upstoxService,
                   brokerConnection, liveData, nSvc, numListeners, handlerStored,
                   call, inflight, cmVars, calcVars>>

\* unsubscribe(instrumentKeys)
Unsubscribe(instrumentKeys) ==
    /\ Quiescent
    /\ IF StoreNotConnected
       THEN /\ ev' = [Ev("unsubscribe", "end", "ignored") EXCEPT
                        !.keys = Range(instrumentKeys)]
            /\ UNCHANGED <<svc, subscriptions, liveData>>
       ELSE /\ svc' = [svc EXCEPT ![upstoxService] =
                          ServiceUnsubscribe(@, instrumentKeys)]
            /\ subscriptions' = subscriptions \ Range(instrumentKeys)
            /\ liveData' = [k \in (DOMAIN liveData) \ Range(instrumentKeys) |->
                              liveData[k]]
            /\ ev' = [Ev("unsubscribe", "end", "ok") EXCEPT
                        !.keys = Range(instrumentKeys), !.svc = upstoxService]
    /\ UNCHANGED <<connectionStatus, isConnected, error, upstoxService,
                   brokerConnection, subscriptionMode, nSvc, numListeners,
                   handlerStored, call, inflight, cmVars, calcVars>>

\* changeMode(instrumentKeys, mode)
ChangeMode(instrumentKeys, mode) ==
    /\ Quiescent
    /\ IF StoreNotConnected
       THEN /\ ev' = NoEv
            /\ UNCHANGED subscriptionMode
       ELSE /\ subscriptionMode' = mode
            /\ ev' = NoEv
    /\ UNCHANGED <<connectionStatus, isConnected, error, upstoxService,
                   brokerConnection, liveData, subscriptions, svc, nSvc,
                   numListeners, handlerStored, call, inflight, cmVars, calcVars>>

----------------------------------------------------------------------------
(* The poll loop *)

\* the key under which the quote endpoint returns a requested instrument
UpstreamKey(instrumentKey) == ReplaceFirst(instrumentKey, "|", ":")

\* data.data of a 2xx response to a request for the instruments req: at most
\* MaxEntries entries under distinct keys, in the order of Object.entries
ResponseBodies(req, quotes) ==
    LET ks == {UpstreamKey(k) : k \in Range(req)}
        entry == [key : ks, quote : quotes]
    IN {b \in UNION {[1..n -> entry] : n \in 0..MaxEntries} :
            \A i \in DOMAIN b, j \in DOMAIN b : b[i].key = b[j].key => i = j}

\* HTTP status of a poll response; 500 stands for every failure other than 401,
\* a network error included
PollStatuses == {200, 401, 500}

\* the setInterval callback of service s: pollMarketData up to the fetch, while
\* fewer than limit requests await their response.  A request records the keys
\* for which the response of a request issued after it was stored before its
\* own response arrived (late).
PollTickWithin(s, limit) ==
    /\ Quiescent
    /\ s \in 1..nSvc
    /\ svc[s].pollingInterval
    /\ IF svc[s].pollingInstruments = <<>>
       THEN /\ UNCHANGED inflight
            /\ ev' = NoEv
       ELSE /\ Len(inflight) < limit
            /\ inflight' = Append(inflight,
                                  [svc |-> s, req |-> svc[s].pollingInstruments,
                                   late |-> {}])
            /\ ev' = [Ev("pollTick", "end", "request") EXCEPT !.svc = s]
    /\ UNCHANGED <<storeVars, svc, nSvc, numListeners, handlerStored, call, cmVars, calcVars>>

PollTick(s) == PollTickWithin(s, MaxInFlight)

\* the requests left in flight once the i-th was answered and the ticks of
\* the keys stored were written
StillInFlight(i, stored) ==
    [j \in 1..(Len(inflight) - 1) |->
        IF j < i THEN [inflight[j] EXCEPT !.late = @ \cup stored]
        ELSE inflight[j + 1]]

\* an emitter that calls the store without going through the window's listeners
DispatchedAlways(ld, entries) == ApplyResponse(ld, entries)

\* emitMarketData for the entries of one response: window.dispatchEvent reaches
\* updateLiveData only through a registered 'marketData' listener
Dispatched(ld, entries) ==
    IF numListeners > 0 THEN ApplyResponse(ld, entries) ELSE ld

\* the response of the i-th request in flight arrives: the rest of pollMarketData
PollResponse(i, status, body) ==
    /\ Quiescent
    /\ i \in 1..Len(inflight)
    /\ status \in PollStatuses
    /\ body \in IF status = 200 THEN ResponseBodies(inflight[i].req, Quotes) ELSE {<<>>}
    /\ LET s == inflight[i].svc
           e == [Ev("pollResponse", "end", "") EXCEPT
                    !.pre = connectionStatus, !.svc = s, !.status = status,
                    !.entries = body,
                    !.keys = inflight[i].late]
       IN IF status = 200
          THEN /\ liveData' = Dispatched(liveData, body)
               /\ ev' = [e EXCEPT !.res = "ok"]
               /\ UNCHANGED <<svc, connectionStatus>>
          ELSE /\ svc' = [svc EXCEPT ![s] = OnPollError(@, status)]
               /\ connectionStatus' = StatusAfterPollError(connectionStatus)
               /\ ev' = [e EXCEPT !.res = "Polling failed"]
               /\ UNCHANGED liveData
    /\ inflight' = StillInFlight(i, IF status = 200 /\ numListeners > 0
                                    THEN {NormalizeKey(body[j].key) : j \in DOMAIN body}
                                    ELSE {})
    /\ UNCHANGED <<isConnected, error, upstoxService, brokerConnection,
                   subscriptions, subscriptionMode, nSvc, numListeners,
                   handlerStored, call, cmVars, calcVars>>

----------------------------------------------------------------------------
(* Connection manager (useBrokerConnection) *)
Brokers == {"upstox", "zerodha", "angel"}
MinCredLen == 10

\* credentials as the form submits them; the key and the secret by their length
Credentials ==
    [broker_name : Brokers, api_key_len : {MinCredLen, MinCredLen + 1},
     api_secret_len : {MinCredLen, MinCredLen + 1}]

\* validateBrokerCredentials
ValidateBrokerCredentials(credentials) ==
    credentials.api_key_len > MinCredLen /\ credentials.api_secret_len > MinCredLen

\* the row addBrokerConnection inserts
NewRow(userId, credentials, id) ==
    [id |-> id, user_id |-> userId, broker_name |-> credentials.broker_name,
     is_active |-> TRUE, is_verified |-> TRUE, token_expires_at |-> Undefined,
     access_token_encrypted |-> NullStr]

\* the query of fetchConnections(): the user's rows
FetchConnections(rs, userId) == {r \in rs : r.user_id = userId}

\* await fetchConnections(): setConnections(data) unless the query failed
Refetched(rs, userId, fetchOk) ==
    IF fetchOk THEN FetchConnections(rs, userId) ELSE connections

\* fetchConnections() on its own (the effect that runs when the hook mounts)
FetchConnectionsCall(userId, fetchOk) ==
    /\ connections' = Refetched(rows, userId, fetchOk)
    /\ ev' = Ev("fetchConnections", "end", IF fetchOk THEN "ok" ELSE "fetch failed")
    /\ UNCHANGED <<rows, nextId, profile, oauth, clock, aggVars, calcVars>>

\* addBrokerConnection(credentials) by the signed-in user
AddBrokerConnection(userId, credentials, insertOk, fetchOk) ==
    /\ nextId <= MaxIds
    /\ IF ~ValidateBrokerCredentials(credentials)
       THEN /\ ev' = Ev("addConnection", "end", "Invalid broker credentials")
            /\ UNCHANGED cmVars
       ELSE IF ~insertOk
       THEN /\ ev' = Ev("addConnection", "end", "insert failed")
            /\ UNCHANGED cmVars
       ELSE /\ rows' = rows \cup {NewRow(userId, credentials, nextId)}
            /\ nextId' = nextId + 1
            /\ profile' = [broker_connected |-> TRUE,
                           broker_connection_status |-> "connected"]
            /\ connections' = Refetched(rows', userId, fetchOk)
            /\ ev' = [Ev("addConnection", "end", "ok") EXCEPT !.svc = nextId]
            /\ UNCHANGED <<oauth, clock>>
    /\ UNCHANGED <<aggVars, calcVars>>

\* removeBrokerConnection(connectionId) by the signed-in user
RemoveBrokerConnection(userId, connectionId, deleteOk, fetchOk) ==
    /\ IF ~deleteOk
       THEN /\ ev' = [Ev("removeConnection", "end", "delete failed") EXCEPT
                        !.svc = connectionId]
            /\ UNCHANGED <<rows, profile, connections>>
       ELSE /\ rows' = {r \in rows : ~(r.id = connectionId /\ r.user_id = userId)}
            /\ profile' = IF {c \in connections : c.id # connectionId} = {}
                          THEN [broker_connected |-> FALSE,
                                broker_connection_status |-> "disconnected"]
                          ELSE profile
            /\ connections' = Refetched(rows', userId, fetchOk)
            /\ ev' = [Ev("removeConnection", "end", "ok") EXCEPT !.svc = connectionId]
    /\ UNCHANGED <<nextId, oauth, clock, aggVars, calcVars>>

CMNext ==
    \/ \E u \in Users, c \in Credentials, insertOk \in BOOLEAN, fetchOk \in BOOLEAN :
          AddBrokerConnection(u, c, insertOk, fetchOk)
    \/ \E u \in Users, id \in 1..MaxIds, deleteOk \in BOOLEAN, fetchOk \in BOOLEAN :
          RemoveBrokerConnection(u, id, deleteOk, fetchOk)
    \/ \E u \in Users, fetchOk \in BOOLEAN : FetchConnectionsCall(u, fetchOk)

SpecCM == Init /\ [][CMNext]_vars

----------------------------------------------------------------------------
(* Token lifecycle: the OAuth callback page and the token refresh.  Instants *)
(* are minutes of local time since midnight of day 0.                        *)
MaxDay == 1     \* the clock runs over the days 0..MaxDay
ExpiryHours == 3
ExpiryMinutes == 30
RefreshWindow == 10
RefreshLifetimeHours == 24

\* the instants at which the connection manager is used
Instants == {d * 1440 + m : d \in 0..MaxDay, m \in {1, 200, 201, 1439}}

\* new Date(t): the local calendar fields of the instant t
DateOf(t) == [date |-> t \div 1440, hours |-> (t % 1440) \div 60, minutes |-> t % 60]

\* date.getTime(); fields out of range carry over, as Date normalises them
GetTime(d) == d.date * 1440 + d.hours * 60 + d.minutes

\* date.setDate(n)
SetDate(d, n) == [d EXCEPT !.date = n]

\* date.setHours(h, m, 0, 0)
SetHours(d, h, m) == [d EXCEPT !.hours = h, !.minutes = m]

\* an expiry at 03:30 of the day of issue
CalculateUpstoxTokenExpirySameDay(now) ==
    GetTime(SetHours(DateOf(now), ExpiryHours, ExpiryMinutes))

\* calculateUpstoxTokenExpiry() called at the instant now
CalculateUpstoxTokenExpiry(now) ==
    LET tomorrow == SetDate(DateOf(now), DateOf(now).date + 1)
    IN GetTime(SetHours(tomorrow, ExpiryHours, ExpiryMinutes))

\* the query parameters of the callback URL; a missing parameter is null
OAuthCodes == {NullStr, "code"}
OAuthStates == {NullStr, "u1", "u2"}
OAuthErrors == {NullStr, "access_denied"}

\* the token endpoint's answers: an error, a body without access_token, or a
\* token with some expires_in (minutes)
TokenResponses ==
    {[ok |-> FALSE, access_token |-> NullStr, expires_in |-> Undefined]}
    \cup [ok : {TRUE}, access_token : {NullStr, "token"}, expires_in : {Undefined, 60}]

\* btoa(access_token)
Btoa(s) == IF s = "token" THEN "dG9rZW4=" ELSE NullStr

\* checks that compare nothing with the signed-in user
OAuthCheckNoState(userId, code, state, err) ==
    IF err # NullStr THEN "Upstox OAuth error"
    ELSE IF code = NullStr THEN "No authorization code received from Upstox"
    ELSE "ok"

\* handleCallback's checks of the query parameters: "ok" or the message thrown
OAuthCheck(userId, code, state, err) ==
    IF err # NullStr THEN "Upstox OAuth error"
    ELSE IF code = NullStr THEN "No authorization code received from Upstox"
    ELSE IF state = NullStr THEN "No state parameter received"
    ELSE IF state # userId THEN "Invalid state parameter - possible security issue"
    ELSE "ok"

\* handleCallback up to the await of the broker_connections query
OAuthCallback(userId, code, state, err) ==
    /\ oauth.pc = "idle"
    /\ LET res == OAuthCheck(userId, code, state, err)
       IN IF res = "ok"
          THEN /\ oauth' = [pc |-> "lookup", userId |-> userId, code |-> code, id |-> 0]
               /\ ev' = [Ev("oauthCallback", "start", "") EXCEPT
                           !.args = <<userId, code, state, err>>]
          ELSE /\ oauth' = oauth
               /\ ev' = [Ev("oauthCallback", "end", res) EXCEPT
                           !.args = <<userId, code, state, err>>]
    /\ UNCHANGED <<rows, connections, nextId, profile, clock, aggVars, calcVars>>

\* .eq('user_id', user.id).eq('broker_name', 'upstox').single()
UpstoxLookup(rs, userId) ==
    LET found == {r \in rs : r.user_id = userId /\ r.broker_name = "upstox"}
    IN IF Cardinality(found) = 1 THEN CHOOSE r \in found : TRUE ELSE Null

\* the query returns: the token exchange request is sent, or the callback fails
OAuthLookup ==
    /\ oauth.pc = "lookup"
    /\ LET row == UpstoxLookup(rows, oauth.userId)
       IN IF row = Null
          THEN /\ oauth' = NoOAuth
               /\ ev' = Ev("oauthCallback", "end",
                           "Broker connection not found in database")
          ELSE /\ oauth' = [oauth EXCEPT !.pc = "exchange", !.id = row.id]
               /\ ev' = [Ev("oauthCallback", "exchange", "") EXCEPT !.svc = row.id]
    /\ UNCHANGED <<rows, connections, nextId, profile, clock, aggVars, calcVars>>

\* the update of handleCallback applied to the rows: .eq('id', id)
WithTokens(rs, id, token, expiryTime) ==
    {IF r.id = id
     THEN [r EXCEPT !.access_token_encrypted = Btoa(token),
                    !.token_expires_at = expiryTime,
                    !.is_active = TRUE, !.is_verified = TRUE]
     ELSE r : r \in rs}

\* the token endpoint answers at the instant now: the rest of handleCallback
OAuthExchange(tokenResponse, now, updateOk) ==
    /\ oauth.pc = "exchange"
    /\ now \in Instants /\ now >= clock
    /\ clock' = now
    /\ oauth' = NoOAuth
    /\ LET e == [Ev("oauthCallback", "end", "") EXCEPT !.svc = oauth.id, !.now = now]
       IN IF ~tokenResponse.ok
          THEN /\ ev' = [e EXCEPT !.res = "Upstox API Error"]
               /\ UNCHANGED <<rows, profile>>
          ELSE IF tokenResponse.access_token = NullStr
          THEN /\ ev' = [e EXCEPT !.res = "No access token received from Upstox"]
               /\ UNCHANGED <<rows, profile>>
          ELSE IF ~updateOk
          THEN /\ ev' = [e EXCEPT !.res = "Failed to save authentication tokens"]
               /\ UNCHANGED <<rows, profile>>
          ELSE /\ rows' = WithTokens(rows, oauth.id, tokenResponse.access_token,
                                     CalculateUpstoxTokenExpiry(now))
               /\ profile' = [broker_connected |-> TRUE,
                              broker_connection_status |-> "connected"]
               /\ ev' = [e EXCEPT !.res = "ok"]
    /\ UNCHANGED <<connections, nextId, aggVars, calcVars>>

\* newTokenExpiry: setHours(getHours() + 24) on new Date()
NewTokenExpiry(now) ==
    GetTime(SetHours(DateOf(now), DateOf(now).hours + RefreshLifetimeHours,
                     DateOf(now).minutes))

\* the update of refreshBrokerToken: .eq('id', connectionId).eq('user_id', user.id)
Refreshed(rs, userId, connectionId, now) ==
    {IF r.id = connectionId /\ r.user_id = userId
     THEN [r EXCEPT !.token_expires_at = NewTokenExpiry(now), !.is_active = TRUE]
     ELSE r : r \in rs}

\* the body of refreshBrokerToken(connectionId) at the instant now
RefreshEffect(userId, connectionId, now, updateOk, fetchOk) ==
    IF updateOk
    THEN /\ rows' = Refreshed(rows, userId, connectionId, now)
         /\ connections' = Refetched(rows', userId, fetchOk)
    ELSE UNCHANGED <<rows, connections>>

\* refreshBrokerToken(connectionId) called by the connection card
RefreshBrokerToken(userId, connectionId, now, updateOk, fetchOk) ==
    /\ now \in Instants /\ now >= clock
    /\ clock' = now
    /\ RefreshEffect(userId, connectionId, now, updateOk, fetchOk)
    /\ ev' = [Ev("refreshToken", "end", IF updateOk THEN "ok" ELSE "Refresh failed")
                EXCEPT !.svc = connectionId, !.now = now]
    /\ UNCHANGED <<nextId, profile, oauth, aggVars, calcVars>>

\* a refresh that also starts when exactly the window remains
RefreshDueInclusive(timeToExpiry) == timeToExpiry <= RefreshWindow

\* timeToExpiry < 10 * 60 * 1000 (in minutes)
RefreshDue(timeToExpiry) == timeToExpiry < RefreshWindow

\* connections.find(c => c.id === connectionId): the record, or UndefinedObj
FindConnection(connectionId) ==
    IF \E c \in connections : c.id = connectionId
    THEN CHOOSE c \in connections : c.id = connectionId
    ELSE UndefinedObj

\* refreshTokenIfNeeded(connectionId) at the instant now
RefreshTokenIfNeeded(userId, connectionId, now, updateOk, fetchOk) ==
    /\ now \in Instants /\ now >= clock
    /\ clock' = now
    /\ LET connection == FindConnection(connectionId)
           e == [Ev("refreshTokenIfNeeded", "end", "") EXCEPT
                    !.svc = connectionId, !.now = now]
       IN IF connection = UndefinedObj \/ Get(connection, "token_expires_at") = Undefined
          THEN /\ ev' = [e EXCEPT !.res = "skipped"]
               /\ UNCHANGED <<rows, connections>>
          ELSE IF RefreshDue(connection.token_expires_at - now)
          THEN /\ RefreshEffect(userId, connectionId, now, updateOk, fetchOk)
               /\ ev' = [e EXCEPT !.res = IF updateOk THEN "ok" ELSE "Refresh failed",
                                  !.exp = connection.token_expires_at]
          ELSE /\ ev' = [e EXCEPT !.res = "skipped",
                                  !.exp = connection.token_expires_at]
               /\ UNCHANGED <<rows, connections>>
    /\ UNCHANGED <<nextId, profile, oauth, aggVars, calcVars>>

\* The token lifecycle of one user's connections
AuthNext ==
    \/ \E u \in Users, c \in Credentials, insertOk \in BOOLEAN :
          AddBrokerConnection(u, c, insertOk, TRUE)
    \/ \E u \in Users, id \in 1..MaxIds, deleteOk \in BOOLEAN :
          RemoveBrokerConnection(u, id, deleteOk, TRUE)
    \/ \E u \in Users : FetchConnectionsCall(u, TRUE)
    \/ \E u \in Users, code \in OAuthCodes, state \in OAuthStates, err \in OAuthErrors :
          OAuthCallback(u, code, state, err)
    \/ OAuthLookup
    \/ \E resp \in TokenResponses, now \in Instants, updateOk \in BOOLEAN :
          OAuthExchange(resp, now, updateOk)
    \/ \E u \in Users, id \in 1..MaxIds, now \in Instants, updateOk \in BOOLEAN :
          RefreshBrokerToken(u, id, now, updateOk, TRUE)
    \/ \E u \in Users, id \in 1..MaxIds, now \in Instants, updateOk \in BOOLEAN :
          RefreshTokenIfNeeded(u, id, now, updateOk, TRUE)

SpecAuth == Init /\ [][AuthNext]_vars

----------------------------------------------------------------------------
AggNext ==
    \/ \E u \in Users : InitializeStart(u)
    \/ ReconnectStart
    \/ ReconnectInitialize
    \/ \E row \in LookupResults(call.userId), now \in 1..MaxTime :
          InitializeLookup(row, now)
    \/ ConnectStart
    \/ \E ok \in BOOLEAN : ConnectTest(ok)
    \/ Disconnect
    \/ \E ks \in KeySeqs, m \in Modes : Subscribe(ks, m)
    \/ \E ks \in KeySeqs : Unsubscribe(ks)
    \/ \E m \in Modes : ChangeMode(<<NiftyKey>>, m)
    \/ \E s \in 1..MaxServices : PollTick(s)
    \/ \E i \in 1..MaxInFlight, st \in PollStatuses :
          \E body \in IF st = 200 /\ i <= Len(inflight)
                      THEN ResponseBodies(inflight[i].req, {QuoteFull}) ELSE {<<>>} :
             PollResponse(i, st, body)

Next == AggNext

Spec == Init /\ [][Next]_vars

\* The tick path with every kind of quote: one connection at a time, responses
\* drawn from all of Quotes
FeedNext ==
    \/ \E u \in Users : InitializeStart(u)
    \/ \E row \in LookupResults(call.userId), now \in 1..MaxTime :
          InitializeLookup(row, now)
    \/ \E ok \in BOOLEAN : ConnectTest(ok)
    \/ Disconnect
    \/ \E ks \in KeySeqs, m \in Modes : Subscribe(ks, m)
    \/ \E s \in 1..MaxServices : PollTick(s)
    \/ \E i \in 1..MaxInFlight, st \in PollStatuses :
          \E body \in IF st = 200 /\ i <= Len(inflight)
                      THEN ResponseBodies(inflight[i].req, Quotes) ELSE {<<>>} :
             PollResponse(i, st, body)

SpecFeed == Init /\ [][FeedNext]_vars

\* Overlapping poll ticks: up to MaxOverlap requests await their responses,
\* which arrive in any order
MaxOverlap == 2

OverlapNext ==
    \/ \E u \in Users : InitializeStart(u)
    \/ \E row \in LookupResults(call.userId), now \in 1..MaxTime :
          InitializeLookup(row, now)
    \/ \E ok \in BOOLEAN : ConnectTest(ok)
    \/ \E ks \in KeySeqs, m \in Modes : Subscribe(ks, m)
    \/ \E s \in 1..MaxServices : PollTickWithin(s, MaxOverlap)
    \/ \E i \in 1..MaxOverlap, st \in PollStatuses :
          \E body \in IF st = 200 /\ i <= Len(inflight)
                      THEN ResponseBodies(inflight[i].req, {QuoteFull, QuoteLtp})
                      ELSE {<<>>} :
             PollResponse(i, st, body)

SpecOverlap == Init /\ [][OverlapNext]_vars

----------------------------------------------------------------------------
(* Option chain enrichment (useOptionChainData) *)
PutKey == <<"NSE_FO", "|", "NIFTY25000PE">>

\* quotes that leave a tick with a price, with the price 0, and without a price
LiveQuotes == {QuoteFull, [last_price |-> 0], [volume |-> 700000]}

\* the tick the poll loop stores for key k after the quote q
TickOf(k, q) == Spread(EmptyObj, HandleMarketData(PollMapping(UpstreamKey(k), q)))

\* live maps with ticks for any of the two option keys
LiveMaps ==
    UNION {[D -> LiveQuotes] : D \in SUBSET {OptKey, PutKey}}

LiveMapOf(m) == [k \in DOMAIN m |-> TickOf(k, m[k])]

\* cached option rows of the static chain query, or null
CachedOptions(k, symbol) ==
    {Null} \cup [instrument_key : {k}, trading_symbol : {symbol}, ltp : {0, 120}]

ChainRows ==
    [strike_price : {25000},
     call_options : CachedOptions(OptKey, "NIFTY25000CE"),
     put_options : CachedOptions(PutKey, "NIFTY25000PE")]

\* one side of a row of enrichedOptionChain
EnrichSide(option, ld) ==
    IF option = Null THEN Null
    ELSE LET live == IF "instrument_key" \in DOMAIN option
                     THEN MarketDataOf(ld, option.instrument_key) ELSE Null
         IN Spread(option,
                   [live_ltp |-> Get(live, "ltp"),
                    current_ltp |-> JsOr(Get(live, "ltp"), option.ltp),
                    isLive |-> live # Null])

\* enrichedOptionChain: the map callback applied to one row, with the store's
\* live map ld behind getMarketData
EnrichedRow(chain, ld) ==
    [chain EXCEPT !.call_options = EnrichSide(chain.call_options, ld),
                  !.put_options = EnrichSide(chain.put_options, ld)]

----------------------------------------------------------------------------
(* OptionChainCalculator.  Prices of getATMStrike are in paise (1/100), so   *)
(* that prices between two rupees are covered; strikes of generateStrikes    *)
(* are in rupees.                                                            *)
MaxPrice == 15000    \* underlying prices are 0..MaxPrice paise
MaxAtm == 600        \* at-the-money strikes are -MaxAtm..MaxAtm
MaxOptions == 2      \* options in one side's list of calculatePCR
TickSize == 50
StrikeRange == 500
StrikeInterval == 50

\* Math.floor(n / d)
MathFloor(n, d) == n \div d

\* Math.round(n / d): the nearest integer, halves upwards
MathRound(n, d) == (2 * n + d) \div (2 * d)

\* getATMStrike(underlyingPrice, tickSize)
GetATMStrike(underlyingPrice, tickSize) ==
    MathRound(underlyingPrice, tickSize) * tickSize

\* marketStore.calculateATMStrike(price), price in paise
CalculateATMStrike(price) == MathRound(price, TickSize * 100) * (TickSize * 100)

\* a loop that stops before its upper limit
LoopContinuesBelow(strike, last) == strike < last

\* the loop condition of generateStrikes: strike <= atmStrike + range
LoopContinues(strike, last) == strike <= last

\* the for loop of generateStrikes, from strike on
RECURSIVE StrikesFrom(_, _, _)
StrikesFrom(strike, last, interval) ==
    IF ~LoopContinues(strike, last) THEN <<>>
    ELSE (IF strike > 0 THEN <<strike>> ELSE <<>>)
         \o StrikesFrom(strike + interval, last, interval)

\* insertion of x into the ascending sequence s
RECURSIVE InsertAsc(_, _)
InsertAsc(s, x) ==
    IF s = <<>> THEN <<x>>
    ELSE IF x < Head(s) THEN <<x>> \o s
    ELSE <<Head(s)>> \o InsertAsc(Tail(s), x)

\* strikes.sort((a, b) => a - b)
RECURSIVE SortAsc(_)
SortAsc(s) == IF s = <<>> THEN <<>> ELSE InsertAsc(SortAsc(Tail(s)), Head(s))

\* generateStrikes(atmStrike, range, interval)
GenerateStrikes(atmStrike, range, interval) ==
    SortAsc(StrikesFrom(atmStrike - range, atmStrike + range, interval))

\* numbers that come out of a division: num / den, where den = 0 stands for
\* NaN and Infinity
Frac(num, den) == [num |-> num, den |-> den]

\* the literal 0
Zero == Frac(0, 1)

\* option records of calculatePCR's lists: volume and oi present, 0 or missing
OptionDatas ==
    {EmptyObj, [volume |-> 0, oi |-> 0], [volume |-> 2, oi |-> 0],
     [oi |-> 2], [volume |-> 2, oi |-> 2]}

OptionLists == UNION {[1..n -> OptionDatas] : n \in 0..MaxOptions}

\* list.reduce((sum, opt) => sum + (opt[f] || 0), 0)
RECURSIVE ReduceSum(_, _)
ReduceSum(list, f) ==
    IF list = <<>> THEN 0
    ELSE JsOr(Get(list[Len(list)], f), 0) + ReduceSum(SubSeq(list, 1, Len(list) - 1), f)

\* a ratio without the guard against an empty call side
RatioUnguarded(totalPut, totalCall) == Frac(totalPut, totalCall)

\* totalCall > 0 ? totalPut / totalCall : 0
RatioOrZero(totalPut, totalCall) ==
    IF totalCall > 0 THEN Frac(totalPut, totalCall) ELSE Zero

\* calculatePCR(ceData, peData)
CalculatePCR(ceData, peData) ==
    [byVolume |-> RatioOrZero(ReduceSum(peData, "volume"), ReduceSum(ceData, "volume")),
     byOI |-> RatioOrZero(ReduceSum(peData, "oi"), ReduceSum(ceData, "oi"))]

\* getMoneyness: prices and strikes in paise
MaxStrikes == 2      \* strikes of getMoneyness are 50 * 1..MaxStrikes rupees
AtmBand == 25

MoneynessStrikes == {k * StrikeInterval * 100 : k \in 1..MaxStrikes}
OptionTypes == {"CE", "PE"}

\* Math.abs(x)
MathAbs(x) == IF x < 0 THEN 0 - x ELSE x

\* a band that excludes its edge
WithinBandStrict(diff) == diff < AtmBand * 100

\* diff <= 25
WithinBand(diff) == diff <= AtmBand * 100

\* getMoneyness(underlyingPrice, strikePrice, optionType)
GetMoneyness(underlyingPrice, strikePrice, optionType) ==
    LET diff == MathAbs(underlyingPrice - strikePrice)
    IN IF WithinBand(diff) THEN "ATM"
       ELSE IF optionType = "CE"
            THEN (IF underlyingPrice > strikePrice THEN "ITM" ELSE "OTM")
            ELSE (IF underlyingPrice < strikePrice THEN "ITM" ELSE "OTM")

----------------------------------------------------------------------------
(* Market hours.  Instants are minutes of local time since midnight of a    *)
(* Sunday (day 0).                                                          *)
MaxWeekDay == 6      \* the market clock runs over the days 0..MaxWeekDay
MarketOpenTime == 915
MarketCloseTime == 1530

WeekInstants == 0..((MaxWeekDay + 1) * 1440 - 1)

\* now.getDay(): 0 = Sunday, 6 = Saturday
GetDay(d) == d.date % 7

\* hours * 100 + minutes
CurrentTime(d) == d.hours * 100 + d.minutes

\* market hours that exclude the closing minute
MarketHoursOpenEnd(currentTime) ==
    currentTime >= MarketOpenTime /\ currentTime < MarketCloseTime

\* currentTime >= 915 && currentTime <= 1530
MarketHours(currentTime) ==
    currentTime >= MarketOpenTime /\ currentTime <= MarketCloseTime

\* DateTimeUtils.isMarketOpen() called at the instant now
IsMarketOpen(now) ==
    LET d == DateOf(now)
    IN IF GetDay(d) = 0 \/ GetDay(d) = 6 THEN FALSE
       ELSE MarketHours(CurrentTime(d))

\* the queryFn of useMarketStatusQuery called at the instant now
MarketStatusQuery(now) ==
    LET d == DateOf(now)
    IN IF GetDay(d) = 0 \/ GetDay(d) = 6
       THEN [isOpen |-> FALSE, message |-> "Market is closed on weekends"]
       ELSE LET isOpen == MarketHours(CurrentTime(d))
            IN [isOpen |-> isOpen,
                message |-> IF isOpen THEN "Market is open" ELSE "Market is closed"]

\* One call of a calculator on inputs drawn from the bounded sets.  The
\* calculators are pure, so a behaviour makes one call and records it in calc.
CallGetATMStrike(price) ==
    /\ calc = NoCalc
    /\ calc' = [op |-> "getATMStrike", price |-> price,
                out |-> GetATMStrike(price, TickSize * 100),
                store |-> CalculateATMStrike(price)]
    /\ UNCHANGED <<aggVars, cmVars, ev>>

CallGenerateStrikes(atm) ==
    /\ calc = NoCalc
    /\ calc' = [op |-> "generateStrikes", atm |-> atm,
                out |-> GenerateStrikes(atm, StrikeRange, StrikeInterval)]
    /\ UNCHANGED <<aggVars, cmVars, ev>>

CallCalculatePCR(ceData, peData) ==
    /\ calc = NoCalc
    /\ calc' = [op |-> "calculatePCR", ceData |-> ceData, peData |-> peData,
                out |-> CalculatePCR(ceData, peData)]
    /\ UNCHANGED <<aggVars, cmVars, ev>>

CallEnrich(chain, m) ==
    /\ calc = NoCalc
    /\ calc' = [op |-> "enrich", chain |-> chain, live |-> LiveMapOf(m),
                out |-> EnrichedRow(chain, LiveMapOf(m))]
    /\ UNCHANGED <<aggVars, cmVars, ev>>

CallGetMoneyness(price, strike) ==
    /\ calc = NoCalc
    /\ calc' = [op |-> "getMoneyness", price |-> price, strike |-> strike,
                out |-> [t \in OptionTypes |-> GetMoneyness(price, strike, t)]]
    /\ UNCHANGED <<aggVars, cmVars, ev>>

CallIsMarketOpen(now) ==
    /\ calc = NoCalc
    /\ calc' = [op |-> "isMarketOpen", now |-> now, out |-> IsMarketOpen(now),
                query |-> MarketStatusQuery(now)]
    /\ UNCHANGED <<aggVars, cmVars, ev>>

CalcNext ==
    \/ /\ calc = NoCalc
       /\ \E price \in 0..MaxPrice : CallGetATMStrike(price)
    \/ /\ calc = NoCalc
       /\ \E atm \in (0 - MaxAtm)..MaxAtm : CallGenerateStrikes(atm)
    \/ /\ calc = NoCalc
       /\ \E ceData \in OptionLists, peData \in OptionLists :
             CallCalculatePCR(ceData, peData)
    \/ /\ calc = NoCalc
       /\ \E chain \in ChainRows, m \in LiveMaps : CallEnrich(chain, m)
    \/ /\ calc = NoCalc
       /\ \E price \in 0..MaxPrice, strike \in MoneynessStrikes :
             CallGetMoneyness(price, strike)
    \/ /\ calc = NoCalc
       /\ \E now \in WeekInstants : CallIsMarketOpen(now)

SpecCalc == Init /\ [][CalcNext]_vars

----------------------------------------------------------------------------
(* Claims *)

\* C1: an initialize(userId) call started on a disconnected aggregator sets the
\* status to 'connecting' first, ends in 'connected' exactly when the lookup and
\* the connection test both succeeded, ends in 'error' otherwise, and sets no
\* other status.
C1_InitializeStatuses ==
    (ev.op = "initialize" /\ ev.kind = "initialize" /\ ev.from = "disconnected") =>
        /\ connectionStatus \in {"connecting", "connected", "error"}
        /\ ev.step \in {"start", "lookup"} => connectionStatus = "connecting"
        /\ ev.step = "end" =>
              /\ connectionStatus = "connected" <=> (ev.lookup = "ok" /\ ev.test = "ok")
              /\ connectionStatus = "error" <=> ~(ev.lookup = "ok" /\ ev.test = "ok")

C1_Witness ==
    /\ ev.op = "initialize" /\ ev.kind = "initialize" /\ ev.from = "disconnected"
    /\ ev.step = "end" /\ ev.test = "ok"
    /\ connectionStatus = "connected"

\* C2: a failed poll tick while 'connected' moves the status to 'error', and
\* 'reconnecting' is entered only by reconnect().
C2_PollFailureSetsError ==
    /\ (ev.op = "pollResponse" /\ ev.status # 200 /\ ev.pre = "connected") =>
          connectionStatus = "error"
    /\ connectionStatus = "reconnecting" => ev.op = "reconnect"

\* C3: reconnect() called in status 'error' or 'disconnected' is not rejected
\* for lack of a remembered broker connection: it sets the status to
\* 'reconnecting' (and then re-runs initialize).
C3_ReconnectAccepted ==
    (ev.op = "reconnect" /\ ev.from \in {"error", "disconnected"}) =>
        /\ ev.res = ""
        /\ connectionStatus = "reconnecting"

\* C4: right after disconnect(), the poll timer of the service that was current
\* is stopped, the tick map and both subscription sets are empty, the status is
\* 'disconnected' and isConnected is false.
C4_DisconnectClears ==
    ev.op = "disconnect" =>
        /\ connectionStatus = "disconnected"
        /\ ~isConnected
        /\ liveData = EmptyObj
        /\ subscriptions = {}
        /\ ev.svc # 0 =>
              /\ ~svc[ev.svc].pollingInterval
              /\ svc[ev.svc].subscriptions = {}
              /\ svc[ev.svc].pollingInstruments = <<>>

C4_Witness ==
    /\ ev.op = "disconnect" /\ ev.pre = "connected"
    /\ ev.svc # 0 /\ ev.keys # {}
    /\ connectionStatus = "disconnected"

\* C5: an initialize whose lookup finds no active row, or finds a row whose
\* token_expires_at is not later than the current time, ends in 'error' with no
\* service and no broker connection in the store, without having created a
\* service or issued the connection test.
C5_InitializeRejects ==
    (/\ ev.op = "initialize" /\ ev.step \in {"lookup", "end"} /\ ev.test = "none"
     /\ \/ ev.lookup = "fail"
        \/ (ev.exp # Undefined /\ ev.exp <= ev.now)) =>
        /\ ev.step = "end"
        /\ connectionStatus = "error"
        /\ upstoxService = 0
        /\ brokerConnection = Null
        /\ call.pc = "idle"
        /\ ev.svc = 0

C5_Witness ==
    /\ ev.op = "initialize" /\ ev.step = "end" /\ ev.lookup = "ok"
    /\ ev.exp # Undefined /\ ev.exp = ev.now
    /\ connectionStatus = "error" /\ upstoxService = 0

\* C6: a poll request issued right after a successful subscribe(keys) lists
\* every key of the store's subscription set, the keys just subscribed included.
C6_NextRequestCoversSubscriptions ==
    [][(/\ ev.op = "subscribe" /\ ev.res = "ok"
        /\ ev'.op = "pollTick" /\ ev'.res = "request"
        /\ Len(inflight') = Len(inflight) + 1) =>
           /\ ev.keys \subseteq subscriptions
           /\ subscriptions \subseteq Range(inflight'[Len(inflight')].req)]_vars

\* C7: a subscribe called while the store has no service, or the store or the
\* service is not connected, fails with a not-connected error and leaves the
\* subscription sets, the mode, the tick map and the poll timers unchanged.
C7_SubscribeNotConnected ==
    [][(/\ ev'.op = "subscribe"
        /\ \/ upstoxService = 0
           \/ ~isConnected
           \/ ~svc[upstoxService].isConnected) =>
           /\ ev'.res \in {"Not connected to market data stream",
                           "Market data connection not established"}
           /\ UNCHANGED <<subscriptions, subscriptionMode, liveData, svc>>]_vars

C7_Witness ==
    /\ ev.op = "subscribe"
    /\ ev.res = "Market data connection not established"
    /\ isConnected /\ upstoxService # 0
    /\ subscriptionMode = "full"

\* the response fields pollMarketData reads and the tick fields they feed
TickFields ==
    {<<"volume", "volume">>, <<"net_change", "netChange">>,
     <<"percent_change", "percentChange">>, <<"ohlc", "high">>,
     <<"ohlc", "low">>, <<"ohlc", "previousClose">>}

\* C8: when a delivered response entry for key k omits a field that the stored
\* tick of k holds from an earlier response, the tick still holds that value
\* after the update.
C8_OmittedFieldsPersist ==
    [][(ev'.op = "pollResponse" /\ ev'.status = 200 /\ numListeners > 0) =>
           \A i \in DOMAIN ev'.entries :
              LET e == ev'.entries[i]
                  k == NormalizeKey(e.key)
              IN k \in DOMAIN liveData =>
                    \A f \in TickFields :
                       (/\ f[1] \notin DOMAIN e.quote
                        /\ liveData[k][f[2]] \notin {Undefined, 0})
                          => liveData'[k][f[2]] = liveData[k][f[2]]]_vars

\* C9: after a delivered response, every entry's quote is stored under the
\* key with '|' for the first ':' and not under the key as returned; for
\* "NSE_INDEX:Nifty 50" with last_price 24500 and volume 700000,
\* getMarketData("NSE_INDEX|Nifty 50") has ltp 24500 and volume 700000; a key
\* with no tick yields null.
C9_ResponseKeyNormalized ==
    /\ (ev.op = "pollResponse" /\ ev.status = 200 /\ numListeners > 0) =>
          \A i \in DOMAIN ev.entries :
             LET e == ev.entries[i]
             IN /\ GetMarketData(ReplaceFirst(e.key, ":", "|")) # Null
                /\ GetMarketData(ReplaceFirst(e.key, ":", "|")).ltp = e.quote.last_price
                /\ ":" \in Range(e.key) => GetMarketData(e.key) = Null
                /\ (e.key = NiftyUpstream /\ e.quote = QuoteFull) =>
                      /\ GetNiftyData.ltp = 24500
                      /\ GetNiftyData.volume = 700000
                      /\ NiftyUpstream \notin DOMAIN liveData
    /\ \A k \in Keys \cup RespKeys : k \notin DOMAIN liveData => GetMarketData(k) = Null

C9_Witness ==
    /\ ev.op = "pollResponse" /\ ev.status = 200 /\ numListeners > 0
    /\ ev.entries = <<[key |-> NiftyUpstream, quote |-> QuoteFull]>>
    /\ GetNiftyData # Null
    /\ OptKey \notin DOMAIN liveData

\* C10: the credential store holds at most one broker_connections row per
\* (user_id, broker_name).
C10_OneRowPerBroker ==
    \A r1 \in rows, r2 \in rows :
        (r1.user_id = r2.user_id /\ r1.broker_name = r2.broker_name) => r1 = r2

\* C11: every row that is active or verified holds an access token, that is, a
\* token exchange of the OAuth callback succeeded for it: addConnection
\* creates rows inactive and neither it nor a refresh activates a row.
C11_ActiveOnlyAfterOAuth ==
    \A r \in rows :
        (r.is_active \/ r.is_verified) => r.access_token_encrypted # NullStr

\* C12: an OAuth callback with an error parameter, without a code, or with a
\* state other than the signed-in user's id fails at once: no lookup and no
\* token exchange request is started and the rows and the profile are unchanged.
C12_CallbackRejected ==
    [][(/\ ev'.op = "oauthCallback" /\ ev'.args # <<>>
        /\ \/ ev'.args[4] # NullStr
           \/ ev'.args[2] = NullStr
           \/ ev'.args[3] # ev'.args[1]) =>
           /\ ev'.step = "end" /\ ev'.res \notin {"", "ok"}
           /\ oauth'.pc = "idle"
           /\ UNCHANGED <<rows, profile>>]_vars

C12_Witness ==
    /\ ev.op = "oauthCallback" /\ ev.step = "end"
    /\ ev.args = <<"u1", "code", "u2", NullStr>>
    /\ ev.res = "Invalid state parameter - possible security issue"
    /\ \E r \in rows : r.broker_name = "upstox" /\ r.access_token_encrypted = NullStr

\* C13: after a callback that completed at the instant t, the row it updated is
\* active and verified and expires at 03:30 of the day after the day of t,
\* whatever expires_in the token response carried.
C13_ExpiryTomorrow0330 ==
    (ev.op = "oauthCallback" /\ ev.res = "ok") =>
        \A r \in rows :
            r.id = ev.svc =>
                /\ r.is_active /\ r.is_verified
                /\ r.token_expires_at = ((ev.now \div 1440) + 1) * 1440 + 3 * 60 + 30

C13_Witness ==
    /\ ev.op = "oauthCallback" /\ ev.res = "ok"
    /\ ev.now % 1440 = 1439
    /\ \E r \in rows : r.id = ev.svc /\ r.token_expires_at = ev.now + 211

\* C14: after a refresh of an existing connection failed, its row still exists
\* and is neither active nor verified, so that initialize's lookup for that user
\* finds no active connection.
C14_FailedRefreshDeactivates ==
    [][(/\ ev'.op \in {"refreshToken", "refreshTokenIfNeeded"}
        /\ ev'.res = "Refresh failed"
        /\ \E r \in rows : r.id = ev'.svc) =>
           \E r \in rows' :
              /\ r.id = ev'.svc
              /\ ~r.is_active /\ ~r.is_verified
              /\ InitializeCheck(ActiveLookup(rows', r.user_id), ev'.now)
                    = "No active broker connection found"]_vars

\* C15: refreshTokenIfNeeded attempts the refresh exactly when the connection
\* it knows has an expiry less than 10 minutes ahead (or past); otherwise it
\* changes no row.
C15_RefreshWhenDue ==
    [][ev'.op = "refreshTokenIfNeeded" =>
          LET due == \E c \in connections :
                        /\ c.id = ev'.svc
                        /\ c.token_expires_at # Undefined
                        /\ c.token_expires_at - ev'.now < 10
          IN /\ (ev'.res \in {"ok", "Refresh failed"}) <=> due
             /\ ev'.res = "skipped" <=> ~due
             /\ ~due => rows' = rows
             /\ (due /\ ev'.res = "ok") =>
                   \A r \in rows' : r.id = ev'.svc =>
                        r.token_expires_at = ev'.now + 24 * 60]_vars

C15_Witness ==
    /\ ev.op = "refreshTokenIfNeeded" /\ ev.res = "skipped"
    /\ ev.exp # Undefined /\ ev.exp - ev.now = 10
    /\ \E r \in rows : r.id = ev.svc /\ r.token_expires_at = ev.exp

\* C16: a removal that deletes a row resets the profile exactly when the row
\* was the user's only row in the store; otherwise it deletes that row only and
\* leaves the profile as it was.
C16_RemoveDecidesOnStore ==
    [][(/\ ev'.op = "removeConnection" /\ ev'.res = "ok"
        /\ \E r \in rows : r.id = ev'.svc) =>
           LET row == CHOOSE r \in rows : r.id = ev'.svc
               mine == {r \in rows : r.user_id = row.user_id}
           IN /\ rows' = rows \ {row}
              /\ IF mine = {row}
                 THEN profile' = [broker_connected |-> FALSE,
                                  broker_connection_status |-> "disconnected"]
                 ELSE profile' = profile]_vars

\* the fields of the enriched row's two sides next to the cached ones
Sides == {"call_options", "put_options"}

\* C17: for each side of an enriched row whose key has a live tick, current_ltp
\* is the tick's ltp whenever the tick has one (0 included) and the cached ltp
\* otherwise; instrument_key and trading_symbol are those of the cached row.
C17_LiveLtpOverrides ==
    calc.op = "enrich" =>
        \A side \in Sides :
            LET cached == calc.chain[side]
                enriched == calc.out[side]
            IN cached # Null =>
                  /\ enriched.instrument_key = cached.instrument_key
                  /\ enriched.trading_symbol = cached.trading_symbol
                  /\ cached.instrument_key \in DOMAIN calc.live =>
                        LET tick == calc.live[cached.instrument_key]
                        IN enriched.current_ltp =
                              IF tick.ltp # Undefined THEN tick.ltp ELSE cached.ltp

\* C18: the at-the-money strike of a price is a multiple of 50 at most 25 away
\* from the price (in paise: of 5000, at most 2500 away), by both implementations.
C18_AtmStrikeNearest ==
    calc.op = "getATMStrike" =>
        \A strike \in {calc.out, calc.store} :
            /\ strike % 5000 = 0
            /\ strike - calc.price <= 2500
            /\ calc.price - strike <= 2500

C18_Witness ==
    /\ calc.op = "getATMStrike"
    /\ calc.price = 7500 /\ calc.out = 10000 /\ calc.store = 10000

\* C19: generateStrikes(atm, 500, 50) is strictly increasing and holds exactly
\* the positive values among atm - 500 + 50k, k = 0..20; it ends with atm + 500
\* when that is positive and is empty otherwise.
C19_StrikeList ==
    calc.op = "generateStrikes" =>
        LET out == calc.out
            expected == {s \in {calc.atm - 500 + 50 * k : k \in 0..20} : s > 0}
        IN /\ \A i \in 1..(Len(out) - 1) : out[i] < out[i + 1]
           /\ {out[i] : i \in 1..Len(out)} = expected
           /\ IF calc.atm + 500 > 0
              THEN out # <<>> /\ out[Len(out)] = calc.atm + 500
              ELSE out = <<>>

C19_Witness ==
    /\ calc.op = "generateStrikes" /\ calc.atm = 200
    /\ Len(calc.out) = 14 /\ calc.out[1] = 50 /\ calc.out[14] = 700

\* sum of the field f over the list, a missing field counting as 0
RECURSIVE FieldTotal(_, _)
FieldTotal(list, f) ==
    IF list = <<>> THEN 0
    ELSE (IF f \in DOMAIN Head(list) THEN Head(list)[f] ELSE 0)
         + FieldTotal(Tail(list), f)

\* C20: byVolume is sum(put volume) / sum(call volume) and byOI is
\* sum(put OI) / sum(call OI); each is exactly 0 (a number, not NaN) when its call
\* total is 0, whatever the other ratio and the put totals.
C20_PutCallRatio ==
    calc.op = "calculatePCR" =>
        \A p \in {<<"byVolume", "volume">>, <<"byOI", "oi">>} :
            LET ratio == calc.out[p[1]]
                calls == FieldTotal(calc.ceData, p[2])
                puts == FieldTotal(calc.peData, p[2])
            IN /\ ratio.den # 0
               /\ IF calls = 0 THEN ratio.num = 0
                  ELSE ratio.num * calls = puts * ratio.den

C20_Witness ==
    /\ calc.op = "calculatePCR"
    /\ FieldTotal(calc.ceData, "volume") = 0 /\ FieldTotal(calc.peData, "volume") = 4
    /\ FieldTotal(calc.ceData, "oi") = 2 /\ FieldTotal(calc.peData, "oi") = 4
    /\ calc.out.byVolume = Zero /\ calc.out.byOI = Frac(4, 2)

\* C21: getMoneyness is 'ATM' exactly when the price is at most 25 points from
\* the strike; otherwise a call is 'ITM' iff the price is above the strike and a
\* put is 'ITM' iff it is below, each 'OTM' otherwise, so that outside the band
\* the call and the put of one strike are classified differently.
C21_Moneyness ==
    calc.op = "getMoneyness" =>
        LET atm == /\ calc.price - calc.strike <= 2500
                   /\ calc.strike - calc.price <= 2500
        IN /\ \A t \in {"CE", "PE"} : calc.out[t] = "ATM" <=> atm
           /\ ~atm =>
                /\ calc.out["CE"] = IF calc.price > calc.strike THEN "ITM" ELSE "OTM"
                /\ calc.out["PE"] = IF calc.price < calc.strike THEN "ITM" ELSE "OTM"
                /\ calc.out["CE"] # calc.out["PE"]

C21_Witness ==
    /\ calc.op = "getMoneyness"
    /\ calc.price = 7500 /\ calc.strike = 5000
    /\ calc.out["CE"] = "ATM" /\ calc.out["PE"] = "ATM"

\* C22: both implementations report the market open exactly on Monday to
\* Friday from 09:15 to 15:30 inclusive of both minutes, and they agree at
\* every minute of the week.
C22_MarketOpen ==
    calc.op = "isMarketOpen" =>
        LET weekday == ((calc.now \div 1440) % 7) \in 1..5
            minute == calc.now % 1440
            open == weekday /\ minute >= 9 * 60 + 15 /\ minute <= 15 * 60 + 30
        IN /\ calc.out = open
           /\ calc.query.isOpen = open

C22_Witness ==
    /\ calc.op = "isMarketOpen"
    /\ calc.now = 2 * 1440 + 15 * 60 + 30
    /\ calc.out /\ calc.query.isOpen

\* C23: a failed poll response (any status but 2xx, a network error included)
\* changes nothing but the answered request leaving the requests in flight and,
\* on a 401, the isConnected flag of the service that polled: the tick map, the
\* store, the polled instruments, the timers and the credential rows stay as
\* they were, and no request is issued by the failure.
C23_FailedPollFrame ==
    [][(ev'.op = "pollResponse" /\ ev'.status # 200) =>
          /\ UNCHANGED <<storeVars, nSvc, numListeners, handlerStored, call,
                         rows, connections, profile>>
          /\ Len(inflight') = Len(inflight) - 1
          /\ \A s \in 1..MaxServices :
                /\ svc'[s].pollingInstruments = svc[s].pollingInstruments
                /\ svc'[s].pollingInterval = svc[s].pollingInterval
                /\ svc'[s].subscriptions = svc[s].subscriptions
                /\ svc'[s].isConnected =
                      IF s = ev'.svc /\ ev'.status = 401 THEN FALSE
                      ELSE svc[s].isConnected]_vars

C23_Witness ==
    /\ ev.op = "pollResponse" /\ ev.status = 401
    /\ ~svc[ev.svc].isConnected
    /\ svc[ev.svc].pollingInterval /\ svc[ev.svc].pollingInstruments # <<>>
    /\ connectionStatus = "connected" /\ isConnected
    /\ liveData # EmptyObj /\ subscriptions # {}

\* C24: every delivered 2xx response is applied to the tick map when it
\* arrives, whether or not the response of a later request was applied before
\* it: each entry's key then holds that entry's price and volume, and the ticks
\* of the other keys are untouched.
C24_DeliveryOrderWins ==
    [][(ev'.op = "pollResponse" /\ ev'.status = 200 /\ numListeners > 0) =>
          LET written == {NormalizeKey(ev'.entries[i].key) : i \in DOMAIN ev'.entries}
          IN /\ DOMAIN liveData' = DOMAIN liveData \cup written
             /\ \A k \in DOMAIN liveData \ written : liveData'[k] = liveData[k]
             /\ \A i \in DOMAIN ev'.entries :
                   LET e == ev'.entries[i]
                       tick == liveData'[NormalizeKey(e.key)]
                   IN /\ tick.ltp = e.quote.last_price
                      /\ tick.volume = IF "volume" \in DOMAIN e.quote
                                       THEN e.quote.volume ELSE 0]_vars

C24_Witness ==
    /\ ev.op = "pollResponse" /\ ev.status = 200
    /\ NiftyKey \in ev.keys
    /\ ev.entries = <<[key |-> NiftyUpstream, quote |-> QuoteLtp]>>
    /\ liveData[NiftyKey].ltp = 24520 /\ liveData[NiftyKey].volume = 0

\* C25 (as claimed): every non-empty 2xx poll response delivered while the
\* status is 'disconnected', that is after disconnect() returned, is applied to
\* the cleared tick map.
C25_ResponseAfterDisconnectApplied ==
    [][(/\ ev'.op = "pollResponse" /\ ev'.status = 200 /\ ev'.entries # <<>>
        /\ connectionStatus = "disconnected") =>
           \A i \in DOMAIN ev'.entries :
              NormalizeKey(ev'.entries[i].key) \in DOMAIN liveData']_vars

\* C25 (amended): disconnect() aborts no request but removes the listener it
\* stored; a 2xx response delivered after it leaves the status 'disconnected'
\* and is dropped when no 'marketData' listener is registered any more, and is
\* applied to the cleared map when one still is.
C25_ResponseAfterDisconnect ==
    [][(/\ ev'.op = "pollResponse" /\ ev'.status = 200 /\ ev'.entries # <<>>
        /\ connectionStatus = "disconnected") =>
           /\ connectionStatus' = "disconnected"
           /\ IF numListeners = 0 THEN liveData' = liveData
              ELSE \A i \in DOMAIN ev'.entries :
                      LET k == NormalizeKey(ev'.entries[i].key)
                      IN /\ k \in DOMAIN liveData'
                         /\ liveData'[k].ltp = ev'.entries[i].quote.last_price]_vars

C25_Witness ==
    /\ ev.op = "pollResponse" /\ ev.pre = "disconnected"
    /\ connectionStatus = "disconnected" /\ upstoxService = 0
    /\ subscriptions = {}
    /\ liveData # EmptyObj

\* C26: at most one poll timer runs at any time, and right after disconnect()
\* no timer of any service instance runs.
C26_AtMostOneTimer ==
    /\ Cardinality({s \in 1..MaxServices : svc[s].pollingInterval}) <= 1
    /\ ev.op = "disconnect" => \A s \in 1..MaxServices : ~svc[s].pollingInterval

\* C27: in every state isConnected implies the status 'connected', and the
\* status 'connected' implies that the store holds a service.
C27_ConnectedConsistent ==
    /\ isConnected => connectionStatus = "connected"
    /\ connectionStatus = "connected" => upstoxService # 0

\* C28: once disconnect() ran while an initialize/connect call awaits its
\* lookup or its connection test, no step of that call changes the status from
\* 'disconnected', stores a service or registers a listener.
C28_DisconnectWins ==
    [][(call.pc \in {"lookup", "test"} /\ connectionStatus = "disconnected") =>
          /\ connectionStatus' = "disconnected"
          /\ upstoxService' = 0
          /\ numListeners' <= numListeners
          /\ ~handlerStored']_vars

\* the instruments polled by the service the store holds
PolledByStore == IF upstoxService = 0 THEN {}
                 ELSE Range(svc[upstoxService].pollingInstruments)

\* C29: after every completed subscribe, unsubscribe or disconnect the store's
\* subscription set is the set of instruments its service polls; a request
\* issued by that service lists subscribed keys only; and an unsubscribe that
\* removes the last key leaves the service's timer stopped.
C29_StoreMatchesService ==
    [][/\ (ev'.op \in {"subscribe", "unsubscribe", "disconnect"} /\ ev'.res = "ok") =>
             subscriptions' = PolledByStore'
       /\ (ev'.op = "pollTick" /\ ev'.res = "request" /\ ev'.svc = upstoxService) =>
             Range(inflight'[Len(inflight')].req) \subseteq subscriptions
       /\ (ev'.op = "unsubscribe" /\ ev'.res = "ok" /\ subscriptions' = {}) =>
             ~svc'[upstoxService].pollingInterval]_vars

\* C30: every key of the tick map is in the store's subscription set.
C30_TicksOnlyForSubscribed ==
    DOMAIN liveData \subseteq subscriptions

====
